---------------------------- MODULE Spec2Model ----------------------------
(***************************************************************************)
(* A model of the tetrust game core: the board (src/src/board.rs), the     *)
(* rotation tables (src/src/rotation.rs), the block generator              *)
(* (src/src/block.rs) and the GameState state machine (src/src/game.rs).   *)
(*                                                                         *)
(* The board is a 22 x 10 matrix of u8 cells that only ever hold 0 or 1.   *)
(* A row is modelled as the set of its columns that hold 1, so             *)
(* row.contains(&1) is row # {} and row.contains(&0) is row # AllCols.     *)
(***************************************************************************)
EXTENDS Integers, Sequences, FiniteSets, TLC

(***************************************************************************)
(* Program constants.                                                      *)
(***************************************************************************)
BOARD_ROWS == 22
BOARD_COLS == 10
BUFFER_ZONE_ROWS == 2
QUEUE_LEN == 3
N_BLOCK_TYPES == 3

(***************************************************************************)
(* Bounds of the model.  The random source handed to BlockGenerator is a   *)
(* periodic tape of TapeLen samples.  The player first plays one of the    *)
(* opening scripts of Openings (the empty one included) and then delivers  *)
(* at most MaxFree further events of any kind, at most MaxSteer of         *)
(* them Move/Rotate events while the game is on.                           *)
(***************************************************************************)
TapeLen == 2
MaxFree == 8
MaxSteer == 4

Rows == 0..(BOARD_ROWS - 1)
Cols == 0..(BOARD_COLS - 1)
AllCols == Cols

(***************************************************************************)
(* usize in the source is 64 bits wide.  TLC's integers are 32 bits wide,  *)
(* so the wrap of a negative isize cast to usize is modelled modulo        *)
(* USIZE_WRAP: a negative value lands far above every board coordinate,    *)
(* as it does modulo 2^64.                                                 *)
(***************************************************************************)
USIZE_WRAP == 1073741824

(***************************************************************************)
(* rotation.rs: the rotation tables.  A Rotations value is a tuple of four *)
(* Rotation records; RotationIndex i selects element i + 1.                *)
(***************************************************************************)
\* I_ROTATIONS with the bounding box of rotation 0 measured from the top row
\* of the 4 x 4 grid instead of from the row of the cells
I_ROTATIONS_unshifted ==
  << [vertical_offset |-> 0, horizontal_offset |-> 0, width |-> 4, height |-> 1,
      positions |-> << <<1, 0>>, <<1, 1>>, <<1, 2>>, <<1, 3>> >>],
     [vertical_offset |-> 0, horizontal_offset |-> 2, width |-> 1, height |-> 4,
      positions |-> << <<0, 2>>, <<1, 2>>, <<2, 2>>, <<3, 2>> >>],
     [vertical_offset |-> 2, horizontal_offset |-> 0, width |-> 4, height |-> 1,
      positions |-> << <<2, 0>>, <<2, 1>>, <<2, 2>>, <<2, 3>> >>],
     [vertical_offset |-> 0, horizontal_offset |-> 1, width |-> 1, height |-> 4,
      positions |-> << <<0, 1>>, <<1, 1>>, <<2, 1>>, <<3, 1>> >>] >>

I_ROTATIONS ==
  << [vertical_offset |-> 1, horizontal_offset |-> 0, width |-> 4, height |-> 1,
      positions |-> << <<1, 0>>, <<1, 1>>, <<1, 2>>, <<1, 3>> >>],
     [vertical_offset |-> 0, horizontal_offset |-> 2, width |-> 1, height |-> 4,
      positions |-> << <<0, 2>>, <<1, 2>>, <<2, 2>>, <<3, 2>> >>],
     [vertical_offset |-> 2, horizontal_offset |-> 0, width |-> 4, height |-> 1,
      positions |-> << <<2, 0>>, <<2, 1>>, <<2, 2>>, <<2, 3>> >>],
     [vertical_offset |-> 0, horizontal_offset |-> 1, width |-> 1, height |-> 4,
      positions |-> << <<0, 1>>, <<1, 1>>, <<2, 1>>, <<3, 1>> >>] >>

J_ROTATIONS ==
  << [vertical_offset |-> 0, horizontal_offset |-> 0, width |-> 3, height |-> 2,
      positions |-> << <<0, 0>>, <<1, 0>>, <<1, 1>>, <<1, 2>> >>],
     [vertical_offset |-> 0, horizontal_offset |-> 1, width |-> 2, height |-> 3,
      positions |-> << <<0, 1>>, <<0, 2>>, <<1, 1>>, <<2, 1>> >>],
     [vertical_offset |-> 1, horizontal_offset |-> 0, width |-> 3, height |-> 2,
      positions |-> << <<1, 0>>, <<1, 1>>, <<1, 2>>, <<2, 2>> >>],
     [vertical_offset |-> 0, horizontal_offset |-> 0, width |-> 2, height |-> 3,
      positions |-> << <<0, 1>>, <<1, 1>>, <<2, 0>>, <<2, 1>> >>] >>

O_ROTATIONS ==
  << [vertical_offset |-> 0, horizontal_offset |-> 0, width |-> 2, height |-> 2,
      positions |-> << <<0, 0>>, <<0, 1>>, <<1, 0>>, <<1, 1>> >>],
     [vertical_offset |-> 0, horizontal_offset |-> 0, width |-> 2, height |-> 2,
      positions |-> << <<0, 0>>, <<0, 1>>, <<1, 0>>, <<1, 1>> >>],
     [vertical_offset |-> 0, horizontal_offset |-> 0, width |-> 2, height |-> 2,
      positions |-> << <<0, 0>>, <<0, 1>>, <<1, 0>>, <<1, 1>> >>],
     [vertical_offset |-> 0, horizontal_offset |-> 0, width |-> 2, height |-> 2,
      positions |-> << <<0, 0>>, <<0, 1>>, <<1, 0>>, <<1, 1>> >>] >>

BlockType == {"I", "J", "O"}

\* BlockType::rotations
rotations(block_type) ==
  CASE block_type = "I" -> I_ROTATIONS
    [] block_type = "J" -> J_ROTATIONS
    [] block_type = "O" -> O_ROTATIONS

\* RotationIndex::inc: self.0.wrapping_add(1) % 4
inc(i) == ((i + 1) % USIZE_WRAP) % 4

\* RotationIndex::dec: self.0.wrapping_sub(1) % 4
dec(i) == ((i - 1) % USIZE_WRAP) % 4

(***************************************************************************)
(* block.rs: BlockGenerator.  The generator owns the random source; the    *)
(* source is a periodic tape of samples in 1..N_BLOCK_TYPES and `drawn`    *)
(* counts the samples taken so far.                                        *)
(***************************************************************************)
Samples == 1..N_BLOCK_TYPES
Tapes == [1..TapeLen -> Samples]

sample(gen) == gen.tape[(gen.drawn % TapeLen) + 1]

\* BlockGenerator::block: the block for the next sample, and the generator after it
block(gen) ==
  [value |-> CASE sample(gen) = 1 -> "I"
               [] sample(gen) = 2 -> "J"
               [] sample(gen) = 3 -> "O",
   gen   |-> [gen EXCEPT !.drawn = @ + 1]]

(***************************************************************************)
(* ActiveBlock: the block in play.  top_left is <<row, col>>, the row a    *)
(* usize and the column an isize.                                          *)
(***************************************************************************)
ActiveBlock_new(block_type) ==
  LET r == rotations(block_type)[1]
  IN [block_type     |-> block_type,
      rotation_index |-> 0,
      top_left       |-> << BUFFER_ZONE_ROWS - r.vertical_offset - r.height,
                            (BOARD_COLS \div 2) - r.horizontal_offset - (r.width \div 2) >>]

rotation(ab) == rotations(ab.block_type)[ab.rotation_index + 1]

\* isize as usize
as_usize(x) == IF x < 0 THEN USIZE_WRAP + x ELSE x

\* ActiveBlock::board_positions: the four cells in board coordinates, in table order
board_positions(ab) ==
  [k \in 1..4 |-> << ab.top_left[1] + rotation(ab).positions[k][1],
                     as_usize(ab.top_left[2] + rotation(ab).positions[k][2]) >>]

move_down(ab)  == [ab EXCEPT !.top_left[1] = @ + 1]
move_up(ab)    == [ab EXCEPT !.top_left[1] = IF @ = 0 THEN 0 ELSE @ - 1]
move_left(ab)  == [ab EXCEPT !.top_left[2] = @ - 1]
move_right(ab) == [ab EXCEPT !.top_left[2] = @ + 1]
rotate_clockwise(ab)         == [ab EXCEPT !.rotation_index = inc(@)]
rotate_counter_clockwise(ab) == [ab EXCEPT !.rotation_index = dec(@)]

(***************************************************************************)
(* board.rs: Board.                                                        *)
(***************************************************************************)
\* Board::new
Board_new == [r \in Rows |-> {}]

\* highest_occupied without the break: the lowest row holding a 1, or 0
highest_occupied_no_break(b) ==
  IF \E r \in Rows : b[r] # {}
  THEN CHOOSE r \in Rows : b[r] # {} /\ \A q \in Rows : q > r => b[q] = {}
  ELSE 0

\* the first loop of clear_lines: the topmost row holding a 1, or 0
highest_occupied(b) ==
  IF \E r \in Rows : b[r] # {}
  THEN CHOOSE r \in Rows : b[r] # {} /\ \A q \in Rows : q < r => b[q] = {}
  ELSE 0

\* self.0.swap(j, j - 1)
swap(b, j) == [b EXCEPT ![j] = b[j - 1], ![j - 1] = b[j]]

\* bubble leaving the cleared row where it was
bubble_none(b, j, h) == b

\* bubble stopping one row early: for j in (h + 2..=i).rev()
RECURSIVE bubble_short(_, _, _)
bubble_short(b, j, h) == IF j < h + 2 THEN b ELSE bubble_short(swap(b, j), j - 1, h)

\* for j in (h + 1..=i).rev() { self.0.swap(j, j - 1) }
RECURSIVE bubble(_, _, _)
bubble(b, j, h) == IF j < h + 1 THEN b ELSE bubble(swap(b, j), j - 1, h)

\* clear_loop stepping to the row above after a clearance, as after a skip
RECURSIVE clear_loop_skip(_, _, _, _)
clear_loop_skip(b, i, h, n) ==
  IF i < h THEN [board |-> b, cleared |-> n]
  ELSE IF b[i] # AllCols THEN clear_loop_skip(b, i - 1, h, n)
  ELSE clear_loop_skip(bubble([b EXCEPT ![i] = {}], i, h), i - 1, h + 1, (n + 1) % 256)

\* the while loop of clear_lines, from row i upwards, with highest occupied row h
RECURSIVE clear_loop(_, _, _, _)
clear_loop(b, i, h, n) ==
  IF i < h THEN [board |-> b, cleared |-> n]
  ELSE IF b[i] # AllCols THEN clear_loop(b, i - 1, h, n)
  ELSE clear_loop(bubble([b EXCEPT ![i] = {}], i, h), i, h + 1, (n + 1) % 256)

\* Board::clear_lines: the board after it and the count it returns
clear_lines(b) == clear_loop(b, BOARD_ROWS - 1, highest_occupied(b), 0)

\* collides without the test of the column bound
collides_no_column_test(b, ab) ==
  \E k \in 1..4 :
    LET pos == board_positions(ab)[k]
    IN pos[1] >= BOARD_ROWS \/ (pos[2] < BOARD_COLS /\ pos[2] \in b[pos[1]])

\* Board::collides
collides(b, ab) ==
  \E k \in 1..4 :
    LET pos == board_positions(ab)[k]
    IN pos[1] >= BOARD_ROWS \/ pos[2] >= BOARD_COLS \/ pos[2] \in b[pos[1]]

\* fix_from leaving out the last position
RECURSIVE fix_from_three(_, _, _)
fix_from_three(b, ps, k) ==
  IF k > 3 THEN b
  ELSE fix_from_three([b EXCEPT ![ps[k][1]] = @ \cup {ps[k][2]}], ps, k + 1)

\* Board::fix_active_block
RECURSIVE fix_from(_, _, _)
fix_from(b, ps, k) ==
  IF k > 4 THEN b
  ELSE fix_from([b EXCEPT ![ps[k][1]] = @ \cup {ps[k][2]}], ps, k + 1)

fix_active_block(b, ab) == fix_from(b, board_positions(ab), 1)

\* buffer_zone_occupied reading the row below the buffer zone
buffer_zone_occupied_below(b) == b[2] # {}

\* Board::buffer_zone_occupied: the value returned
buffer_zone_occupied(b) == b[1] # {}

\* the debug assertion of buffer_zone_occupied holds
buffer_zone_assertion(b) == b[1] = {} => b[0] = {}

(***************************************************************************)
(* game.rs: the queue, a VecDeque<BlockType>: a ring buffer of capacity    *)
(* QUEUE_LEN whose `len` elements start at physical index `head`.          *)
(***************************************************************************)
\* the VecDeque collected from a sequence of QUEUE_LEN blocks
VecDeque_from(items) == [buf |-> items, head |-> 0, len |-> Len(items)]

phys(q, k) == ((q.head + k) % QUEUE_LEN) + 1

\* the logical contents, front first
contents(q) == [k \in 1..q.len |-> q.buf[phys(q, k - 1)]]

\* VecDeque::as_slices: <<front, back>>
as_slices(q) ==
  LET nfront == IF q.head + q.len <= QUEUE_LEN THEN q.len ELSE QUEUE_LEN - q.head
  IN << [k \in 1..nfront |-> q.buf[q.head + k]],
        [k \in 1..(q.len - nfront) |-> q.buf[k]] >>

\* VecDeque::pop_front: None is <<>>, Some(v) is <<v>>
pop_front(q) ==
  IF q.len = 0 THEN [value |-> <<>>, queue |-> q]
  ELSE [value |-> << q.buf[q.head + 1] >>,
        queue |-> [q EXCEPT !.head = (q.head + 1) % QUEUE_LEN, !.len = q.len - 1]]

\* VecDeque::push_back, below capacity
push_back(q, v) == [q EXCEPT !.buf[phys(q, q.len)] = v, !.len = q.len + 1]

\* VecDeque::make_contiguous
make_contiguous(q) ==
  IF q.head + q.len <= QUEUE_LEN THEN q
  ELSE [buf  |-> [k \in 1..QUEUE_LEN |-> q.buf[phys(q, k - 1)]],
        head |-> 0,
        len  |-> q.len]

(***************************************************************************)
(* game.rs: GameState.  The handlers are operators on a record of the      *)
(* struct's fields.                                                        *)
(***************************************************************************)
VARIABLES
  score, board, block_generator, active_block, queue, game_over,
  event,      \* the event of the last call of update, "None" before the first
  panicked,   \* update has hit unimplemented!()
  landings,   \* calls of handle_landing so far
  opening,    \* the opening script the player follows
  delivered,  \* calls of update so far
  steers,     \* Move/Rotate events of the player's own choice, game on
  returned,   \* the values the calls of Board methods have returned, in order
  timer,      \* the GameTimer
  clock,      \* Instant::now()
  tick,       \* what the last GameTimer::update returned: None <<>>, Some(t) <<t>>
  produced,   \* how many ticks GameTimer::update has produced, and how many
              \* of them with the gravity flag and with the input flag
  pc,         \* where the host's main is: the statement it executes next
  key,        \* what the host's last poll of the keyboard read: no key <<>>, a key <<k>>
  ended_by,   \* the statement of the host loop whose call of update set game_over
  blk,        \* a Block of block.rs
  index,      \* a RotationIndex of rotation.rs
  build       \* the build profile: "debug" checks integer overflow, "release" wraps

gameVars == << score, board, block_generator, active_block, queue, game_over,
               event, panicked, landings, opening, delivered, steers >>

timerVars == << timer, clock, tick, produced >>

hostVars == << pc, key, ended_by >>

rotVars == << blk, index, build >>

vars == << gameVars, returned, timerVars, hostVars, rotVars >>

Direction == {"Left", "Right"}
Event == {<<"Quit">>, <<"Gravity">>} \cup
         {<<"Move", d>> : d \in Direction} \cup {<<"Rotate", d>> : d \in Direction}

\* the GameState fields as one record
GS == [score |-> score, board |-> board, block_generator |-> block_generator,
       active_block |-> active_block, queue |-> queue, game_over |-> game_over]

\* GameState::new
GameState_new(gen0) ==
  LET first == block(gen0)
      b1 == block(first.gen)
      b2 == block(b1.gen)
      b3 == block(b2.gen)
  IN [score |-> 0,
      board |-> Board_new,
      block_generator |-> b3.gen,
      active_block |-> ActiveBlock_new(first.value),
      queue |-> make_contiguous(VecDeque_from(<< b1.value, b2.value, b3.value >>)),
      game_over |-> FALSE]

\* load_next_active_block taking the block from the back of the queue
load_next_from_back(s) ==
  LET last  == contents(s.queue)[s.queue.len]
      rest  == [s.queue EXCEPT !.len = s.queue.len - 1]
      drawn == block(s.block_generator)
  IN [s EXCEPT !.active_block = ActiveBlock_new(last),
               !.block_generator = drawn.gen,
               !.queue = make_contiguous(push_back(rest, drawn.value))]

\* load_next_active_block without the call of make_contiguous
load_next_not_contiguous(s) ==
  LET popped == pop_front(s.queue)
      drawn  == block(s.block_generator)
  IN [s EXCEPT !.active_block = ActiveBlock_new(popped.value[1]),
               !.block_generator = drawn.gen,
               !.queue = push_back(popped.queue, drawn.value)]

\* GameState::load_next_active_block
load_next_active_block(s) ==
  LET popped == pop_front(s.queue)
      drawn  == block(s.block_generator)
  IN [s EXCEPT !.active_block = ActiveBlock_new(popped.value[1]),
               !.block_generator = drawn.gen,
               !.queue = make_contiguous(push_back(popped.queue, drawn.value))]

\* handle_landing testing the buffer zone before the block is fixed
handle_landing_test_first(s) ==
  LET over    == buffer_zone_occupied(s.board)
      fixed   == fix_active_block(s.board, s.active_block)
      cleared == clear_lines(fixed)
      s1      == [s EXCEPT !.board = cleared.board,
                           !.score = s.score + cleared.cleared]
  IN IF over
     THEN [s1 EXCEPT !.game_over = TRUE]
     ELSE load_next_active_block(s1)

\* handle_landing scoring one point per landing that clears anything
handle_landing_flat_score(s) ==
  LET fixed   == fix_active_block(s.board, s.active_block)
      cleared == clear_lines(fixed)
      s1      == [s EXCEPT !.board = cleared.board,
                           !.score = s.score + (IF cleared.cleared > 0 THEN 1 ELSE 0)]
  IN IF buffer_zone_occupied(s1.board)
     THEN [s1 EXCEPT !.game_over = TRUE]
     ELSE load_next_active_block(s1)

\* handle_landing putting the block back at its spawn position, nothing fixed
handle_landing_respawn(s) ==
  [s EXCEPT !.active_block = ActiveBlock_new(s.active_block.block_type)]

\* handle_landing loading the next block before the buffer zone is tested
handle_landing_always_load(s) ==
  LET fixed   == fix_active_block(s.board, s.active_block)
      cleared == clear_lines(fixed)
      s1      == [s EXCEPT !.board = cleared.board,
                           !.score = s.score + cleared.cleared]
      loaded  == load_next_active_block(s1)
  IN IF buffer_zone_occupied(s1.board)
     THEN [loaded EXCEPT !.game_over = TRUE]
     ELSE loaded

\* GameState::handle_landing
handle_landing(s) ==
  LET fixed   == fix_active_block(s.board, s.active_block)
      cleared == clear_lines(fixed)
      s1      == [s EXCEPT !.board = cleared.board,
                           !.score = s.score + cleared.cleared]
  IN IF buffer_zone_occupied(s1.board)
     THEN [s1 EXCEPT !.game_over = TRUE]
     ELSE load_next_active_block(s1)

\* handle_gravity testing the block where it is instead of one row down
handle_gravity_unmoved_test(s) ==
  LET moved == [s EXCEPT !.active_block = move_down(s.active_block)]
  IN IF collides(s.board, s.active_block)
     THEN handle_landing([moved EXCEPT !.active_block = move_up(moved.active_block)])
     ELSE moved

\* GameState::handle_gravity
handle_gravity(s) ==
  LET moved == [s EXCEPT !.active_block = move_down(s.active_block)]
  IN IF collides(moved.board, moved.active_block)
     THEN handle_landing([moved EXCEPT !.active_block = move_up(moved.active_block)])
     ELSE moved

\* handle_move that never undoes the move
handle_move_no_undo(s, direction) ==
  [s EXCEPT !.active_block = IF direction = "Left" THEN move_left(s.active_block)
                                                   ELSE move_right(s.active_block)]

\* handle_move undoing a colliding move with move_up
handle_move_undo_up(s, direction) ==
  LET moved == IF direction = "Left" THEN move_left(s.active_block)
                                     ELSE move_right(s.active_block)
  IN IF collides(s.board, moved)
     THEN [s EXCEPT !.active_block = move_up(moved)]
     ELSE [s EXCEPT !.active_block = moved]

\* GameState::handle_move
handle_move(s, direction) ==
  LET moved == IF direction = "Left" THEN move_left(s.active_block)
                                     ELSE move_right(s.active_block)
      undone == IF direction = "Left" THEN move_right(moved) ELSE move_left(moved)
  IN IF collides(s.board, moved)
     THEN [s EXCEPT !.active_block = undone]
     ELSE [s EXCEPT !.active_block = moved]

\* handle_rotate undoing a rotation by turning on in the same direction
handle_rotate_wrong_undo(s, direction) ==
  LET turned == IF direction = "Left" THEN rotate_counter_clockwise(s.active_block)
                                      ELSE rotate_clockwise(s.active_block)
      undone == IF direction = "Left" THEN rotate_counter_clockwise(turned)
                                      ELSE rotate_clockwise(turned)
  IN IF collides(s.board, turned)
     THEN [s EXCEPT !.active_block = undone]
     ELSE [s EXCEPT !.active_block = turned]

\* GameState::handle_rotate
handle_rotate(s, direction) ==
  LET turned == IF direction = "Left" THEN rotate_counter_clockwise(s.active_block)
                                      ELSE rotate_clockwise(s.active_block)
      undone == IF direction = "Left" THEN rotate_clockwise(turned)
                                      ELSE rotate_counter_clockwise(turned)
  IN IF collides(s.board, turned)
     THEN [s EXCEPT !.active_block = undone]
     ELSE [s EXCEPT !.active_block = turned]

\* update without the early return when the game is over
update_no_early_return(s, ev) ==
  CASE ev[1] = "Gravity" -> [state |-> handle_gravity(s), panic |-> FALSE]
    [] ev[1] = "Move"    -> [state |-> handle_move(s, ev[2]), panic |-> FALSE]
    [] ev[1] = "Rotate"  -> [state |-> handle_rotate(s, ev[2]), panic |-> FALSE]
    [] OTHER             -> [state |-> s, panic |-> TRUE]

\* GameState::update: the state after the call, and whether the call panicked
update(s, ev) ==
  IF s.game_over THEN [state |-> s, panic |-> FALSE]
  ELSE CASE ev[1] = "Gravity" -> [state |-> handle_gravity(s), panic |-> FALSE]
         [] ev[1] = "Move"    -> [state |-> handle_move(s, ev[2]), panic |-> FALSE]
         [] ev[1] = "Rotate"  -> [state |-> handle_rotate(s, ev[2]), panic |-> FALSE]
         [] OTHER             -> [state |-> s, panic |-> TRUE]

(***************************************************************************)
(* The player.  An opening is a fixed sequence of events; every opening is *)
(* played against every tape.                                              *)
(***************************************************************************)
Rep(ev, n) == [k \in 1..n |-> ev]

Openings ==
  << \* nothing: the game as constructed
     << >>,
     \* the first block dropped to the floor
     Rep(<<"Gravity">>, 20),
     \* first block landed in place, second landed at the left wall, third
     \* carried to the right wall and dropped to two rows above the floor
     Rep(<<"Gravity">>, 21) \o Rep(<<"Move", "Left">>, 3) \o Rep(<<"Gravity">>, 21)
       \o Rep(<<"Move", "Right">>, 3) \o Rep(<<"Gravity">>, 18),
     \* ten two-row blocks stacked in place up to the buffer zone
     Rep(<<"Gravity">>, 120),
     \* the first block turned and carried to the left wall
     << <<"Rotate", "Right">> >> \o Rep(<<"Move", "Left">>, 5),
     \* four blocks landed side by side from the left wall, the fifth carried
     \* to the right wall and dropped to two rows above the floor
     Rep(<<"Move", "Left">>, 4) \o Rep(<<"Gravity">>, 21)
       \o Rep(<<"Move", "Left">>, 2) \o Rep(<<"Gravity">>, 21)
       \o Rep(<<"Gravity">>, 21)
       \o Rep(<<"Move", "Right">>, 2) \o Rep(<<"Gravity">>, 21)
       \o Rep(<<"Move", "Right">>, 4) \o Rep(<<"Gravity">>, 18) >>

script == Openings[opening]
InOpening == delivered < Len(script)

\* the player may deliver ev now
MayDeliver(ev) ==
  IF InOpening THEN ev = script[delivered + 1]
  ELSE /\ delivered - Len(script) < MaxFree
       /\ (ev[1] \in {"Move", "Rotate"} /\ ~game_over) => steers < MaxSteer

(***************************************************************************)
(* The state machine of the game core: GameState driven through update.    *)
(* No GameTimer exists in it.                                              *)
(***************************************************************************)
\* no host loop and no Block under rotation
NoHost ==
  /\ pc = "none" /\ key = << >> /\ ended_by = "none"
  /\ blk = << >> /\ index = 0 /\ build = "none"

NoTimer ==
  /\ timer = [constructed |-> FALSE]
  /\ clock = 0
  /\ tick = << >>
  /\ produced = [ticks |-> 0, gravity |-> 0, input |-> 0]

Init ==
  \E tape \in Tapes, o \in 1..Len(Openings) :
    LET s == GameState_new([tape |-> tape, drawn |-> 0])
    IN /\ score = s.score
       /\ board = s.board
       /\ block_generator = s.block_generator
       /\ active_block = s.active_block
       /\ queue = s.queue
       /\ game_over = s.game_over
       /\ event = <<"None">>
       /\ panicked = FALSE
       /\ landings = 0
       /\ opening = o
       /\ delivered = 0
       /\ steers = 0
       /\ returned = << >>
       /\ NoTimer
       /\ NoHost

\* a Gravity event delivered now would run handle_landing
WouldLand == ~game_over /\ collides(board, move_down(active_block))

\* one call state.update(ev)
Deliver(ev) ==
  LET r == update(GS, ev)
  IN /\ ~panicked
     /\ MayDeliver(ev)
     /\ score' = r.state.score
     /\ board' = r.state.board
     /\ block_generator' = r.state.block_generator
     /\ active_block' = r.state.active_block
     /\ queue' = r.state.queue
     /\ game_over' = r.state.game_over
     /\ panicked' = r.panic
     /\ event' = ev
     /\ delivered' = delivered + 1
     /\ landings' = IF ev[1] = "Gravity" /\ WouldLand THEN landings + 1 ELSE landings
     /\ steers' = IF ev[1] \in {"Move", "Rotate"} /\ ~InOpening /\ ~game_over
                  THEN steers + 1 ELSE steers
     /\ UNCHANGED << opening, returned, timerVars, hostVars, rotVars >>

UpdateGravity == Deliver(<<"Gravity">>)

UpdateMove(d) == Deliver(<<"Move", d>>)

UpdateRotate(d) == Deliver(<<"Rotate", d>>)

UpdateQuit == Deliver(<<"Quit">>)

Next ==
  \/ UpdateGravity
  \/ \E d \in Direction : UpdateMove(d)
  \/ \E d \in Direction : UpdateRotate(d)
  \/ UpdateQuit

Spec == Init /\ [][Next]_vars

(***************************************************************************)
(* Steering: the game after an opening, the player delivering Move and     *)
(* Rotate events without end and no Gravity.  The calls of update after    *)
(* the opening are not counted, and returned holds what the one call of    *)
(* collides in the last of them returned.                                  *)
(***************************************************************************)
\* the block handle_move and handle_rotate hand to collides
attempt(ab, ev) ==
  CASE ev = <<"Move", "Left">>    -> move_left(ab)
    [] ev = <<"Move", "Right">>   -> move_right(ab)
    [] ev = <<"Rotate", "Left">>  -> rotate_counter_clockwise(ab)
    [] ev = <<"Rotate", "Right">> -> rotate_clockwise(ab)

\* the next event of the opening
SteerOpening == InOpening /\ Deliver(script[delivered + 1])

\* one call state.update(ev) after the opening
Steer(ev) ==
  LET r == update(GS, ev)
  IN /\ ~InOpening
     /\ score' = r.state.score
     /\ board' = r.state.board
     /\ block_generator' = r.state.block_generator
     /\ active_block' = r.state.active_block
     /\ queue' = r.state.queue
     /\ game_over' = r.state.game_over
     /\ panicked' = r.panic
     /\ event' = ev
     /\ returned' = IF game_over THEN << >>
                    ELSE << collides(board, attempt(active_block, ev)) >>
     /\ UNCHANGED << landings, opening, delivered, steers, timerVars, hostVars, rotVars >>

SteerMove(d) == Steer(<<"Move", d>>)

SteerRotate(d) == Steer(<<"Rotate", d>>)

SteerNext ==
  \/ SteerOpening
  \/ \E d \in Direction : SteerMove(d)
  \/ \E d \in Direction : SteerRotate(d)

SteerSpec == Init /\ [][SteerNext]_vars

(***************************************************************************)
(* Dropping: the game after an opening and at most MaxSteer Move and       *)
(* Rotate events of the player's choice, from where on only Gravity events *)
(* are delivered, and keep being delivered.  The first of them forfeits    *)
(* the steers the player has left; these Gravity events and their landings *)
(* are not counted.                                                        *)
(***************************************************************************)
\* the next event of the opening
DropOpening == InOpening /\ Deliver(script[delivered + 1])

\* a Move or Rotate event before the first Gravity event after the opening
DropSteer(ev) ==
  /\ ~InOpening
  /\ ev[1] \in {"Move", "Rotate"}
  /\ steers < MaxSteer
  /\ Deliver(ev)

\* one call state.update(Event::Gravity) after the opening
DropGravity ==
  LET r == update(GS, <<"Gravity">>)
  IN /\ ~InOpening
     /\ score' = r.state.score
     /\ board' = r.state.board
     /\ block_generator' = r.state.block_generator
     /\ active_block' = r.state.active_block
     /\ queue' = r.state.queue
     /\ game_over' = r.state.game_over
     /\ panicked' = r.panic
     /\ event' = <<"Gravity">>
     /\ steers' = MaxSteer
     /\ UNCHANGED << landings, opening, delivered, returned, timerVars, hostVars, rotVars >>

DropNext ==
  \/ DropOpening
  \/ \E ev \in Event : DropSteer(ev)
  \/ DropGravity

\* the next event of the opening is due: it counts as delivered
OpeningDue == InOpening /\ delivered' = delivered + 1

\* a Gravity event is due while the game is on: it moves the block down,
\* or lands it and spawns the next, or ends the game
GravityDue ==
  /\ ~InOpening /\ ~game_over
  /\ event' = <<"Gravity">>
  /\ game_over' \in BOOLEAN
  /\ active_block' \in {active_block, move_down(active_block)}
                        \cup {ActiveBlock_new(block_type) : block_type \in BlockType}

\* the opening is played to its end and Gravity events keep being delivered
\* while the game is on
DropSpec ==
  /\ Init /\ [][DropNext]_vars
  /\ WF_delivered(OpeningDue)
  /\ WF_<< active_block, game_over >>(GravityDue)

(***************************************************************************)
(* Board::clear_lines as a function of the board.  The boards it is given  *)
(* are the stacks of `height` rows standing on the floor whose rows, from  *)
(* the floor upwards, repeat a pattern of at most MaxPattern row kinds: an *)
(* empty row, a complete row and two incomplete rows.  At most MaxCalls    *)
(* calls are made on one board.                                            *)
(***************************************************************************)
MaxPattern == 4
MaxCalls == 2

RowKinds == << {}, AllCols, 0..((BOARD_COLS \div 2) - 1), {c \in Cols : c % 2 = 1} >>

Patterns == UNION {[1..n -> 1..Len(RowKinds)] : n \in 1..MaxPattern}

BoardOf(pattern, height) ==
  [r \in Rows |->
     IF r < BOARD_ROWS - height THEN {}
     ELSE RowKinds[pattern[((BOARD_ROWS - 1 - r) % Len(pattern)) + 1]]]

BoardInputs == {BoardOf(p, h) : p \in Patterns, h \in 0..BOARD_ROWS}

\* the GameState fields a Board method does not touch, as constructed
NoGame ==
  LET s == GameState_new([tape |-> [k \in 1..TapeLen |-> 1], drawn |-> 0])
  IN /\ score = s.score
     /\ block_generator = s.block_generator
     /\ queue = s.queue
     /\ game_over = s.game_over
     /\ panicked = FALSE
     /\ landings = 0
     /\ opening = 1
     /\ delivered = 0
     /\ steers = 0

ClearInit ==
  /\ board \in BoardInputs
  /\ active_block = ActiveBlock_new("I")
  /\ event = <<"None">>
  /\ returned = << >>
  /\ NoGame
  /\ NoTimer
  /\ NoHost

\* one call board.clear_lines()
CallClearLines ==
  /\ Len(returned) < MaxCalls
  /\ board' = clear_lines(board).board
  /\ returned' = Append(returned, clear_lines(board).cleared)
  /\ event' = <<"clear_lines">>
  /\ UNCHANGED << score, block_generator, active_block, queue, game_over,
                  panicked, landings, opening, delivered, steers, timerVars, hostVars, rotVars >>

ClearNext == CallClearLines

ClearSpec == ClearInit /\ [][ClearNext]_vars

(***************************************************************************)
(* Board::collides and Board::fix_active_block as functions of the board   *)
(* and the block.  The blocks are those of every type and rotation with    *)
(* the anchor in the lowest MaxDepth rows or below the floor and at every  *)
(* column from left of the board to right of it; the boards are the stacks *)
(* of at most MaxDepth rows that alternate two row kinds.                  *)
(***************************************************************************)
MaxDepth == 4

PieceInputs ==
  [block_type : BlockType,
   rotation_index : 0..3,
   top_left : ((BOARD_ROWS - MaxDepth)..BOARD_ROWS) \X ((0 - 4)..BOARD_COLS)]

PieceBoards ==
  {BoardOf(<<k>>, h) : k \in 1..Len(RowKinds), h \in 0..MaxDepth}

PieceInit ==
  /\ board \in PieceBoards
  /\ active_block \in PieceInputs
  /\ event = <<"None">>
  /\ returned = << >>
  /\ NoGame
  /\ NoTimer
  /\ NoHost

\* one call board.collides(&active_block)
CallCollides ==
  /\ ~panicked
  /\ Len(returned) < MaxCalls
  /\ returned' = Append(returned, collides(board, active_block))
  /\ event' = <<"collides">>
  /\ UNCHANGED << score, board, block_generator, active_block, queue, game_over,
                  panicked, landings, opening, delivered, steers, timerVars, hostVars, rotVars >>

\* the first position of the block that indexes the board out of range, or 5
first_out_of_range(ab) ==
  LET out(k) == \/ board_positions(ab)[k][1] >= BOARD_ROWS
                \/ board_positions(ab)[k][2] >= BOARD_COLS
  IN IF \E k \in 1..4 : out(k)
     THEN CHOOSE k \in 1..4 : out(k) /\ \A j \in 1..(k - 1) : ~out(j)
     ELSE 5

\* one call board.fix_active_block(&active_block): the index self.0[r][c]
\* panics at the first position out of range, the positions before it written
CallFixActiveBlock ==
  /\ ~panicked
  /\ IF first_out_of_range(active_block) > 4
     THEN /\ board' = fix_active_block(board, active_block)
          /\ panicked' = FALSE
     ELSE /\ board' =
               [r \in Rows |->
                  board[r] \cup
                    {board_positions(active_block)[k][2] :
                       k \in {j \in 1..(first_out_of_range(active_block) - 1) :
                                board_positions(active_block)[j][1] = r}}]
          /\ panicked' = TRUE
  /\ event' = <<"fix_active_block">>
  /\ UNCHANGED << score, block_generator, active_block, queue, game_over,
                  landings, opening, delivered, steers, returned, timerVars, hostVars, rotVars >>

PieceNext == CallCollides \/ CallFixActiveBlock

PieceSpec == PieceInit /\ [][PieceNext]_vars

(***************************************************************************)
(* timer.rs: IntervalTimer and GameTimer.  An Instant and a Duration are   *)
(* whole numbers of one time unit.  The timer is made at time 0 with a     *)
(* tick interval of 1..MaxInterval units, a gravity period of              *)
(* 0..MaxPeriod ticks or the host's INITIAL_GRAVITY_TICKS and an input     *)
(* period of 1..MaxPeriod ticks, which covers the host's INPUT_TICKS.      *)
(* GameTimer::update is called after any 0..MaxDelta units, up to time     *)
(* MaxClock.  set_gravity_ticks, which the host never calls, is not called.*)
(***************************************************************************)
INITIAL_GRAVITY_TICKS == 12
INPUT_TICKS == 1

MaxInterval == 2
MaxPeriod == 3
MaxDelta == 4
MaxClock == 26

\* u64 arithmetic wraps at the same modulus as usize
U64_WRAP == USIZE_WRAP

\* IntervalTimer::new at the instant now
IntervalTimer_new(tick_interval, now) ==
  [tick_interval        |-> tick_interval,
   last_update          |-> now,
   time_since_last_tick |-> 0,
   next_tick_at         |-> now + tick_interval]

\* one interval taken from the accumulator at most
drain_once(acc, tick_interval) ==
  IF acc >= tick_interval THEN acc - tick_interval ELSE acc

\* while self.time_since_last_tick >= self.tick_interval { -= }
RECURSIVE drain(_, _)
drain(acc, tick_interval) ==
  IF acc >= tick_interval THEN drain(acc - tick_interval, tick_interval) ELSE acc

\* IntervalTimer::update at the instant now: the timer after it and the value returned
IntervalTimer_update(it, now) ==
  LET delta == now - it.last_update
      acc   == it.time_since_last_tick + delta
      left  == drain(acc, it.tick_interval)
  IN [timer  |-> [it EXCEPT !.last_update = now,
                            !.time_since_last_tick = left,
                            !.next_tick_at = now + it.tick_interval - left],
      ticked |-> acc >= it.tick_interval]

\* u64::is_multiple_of
is_multiple_of(x, n) == IF n = 0 THEN x = 0 ELSE x % n = 0

\* GameTimer::new at the instant now
GameTimer_new(tick_interval, gravity_ticks, input_ticks, now) ==
  [constructed    |-> TRUE,
   interval_timer |-> IntervalTimer_new(tick_interval, now),
   gravity_ticks  |-> gravity_ticks,
   input_ticks    |-> input_ticks,
   tick_count     |-> 0]

\* GameTimer::update testing the periods before the tick is counted
GameTimer_update_test_first(gt, now) ==
  LET r == IntervalTimer_update(gt.interval_timer, now)
  IN IF ~r.ticked
     THEN [timer |-> [gt EXCEPT !.interval_timer = r.timer], tick |-> << >>]
     ELSE [timer |-> [gt EXCEPT !.interval_timer = r.timer,
                                !.tick_count = (gt.tick_count + 1) % U64_WRAP],
           tick  |-> << [gravity |-> is_multiple_of(gt.tick_count, gt.gravity_ticks),
                         input   |-> is_multiple_of(gt.tick_count, gt.input_ticks)] >>]

\* GameTimer::update at the instant now: the timer after it and the value
\* returned, None as << >> and Some(tick) as << tick >>
GameTimer_update(gt, now) ==
  LET r     == IntervalTimer_update(gt.interval_timer, now)
      count == (gt.tick_count + 1) % U64_WRAP
  IN IF ~r.ticked
     THEN [timer |-> [gt EXCEPT !.interval_timer = r.timer], tick |-> << >>]
     ELSE [timer |-> [gt EXCEPT !.interval_timer = r.timer, !.tick_count = count],
           tick  |-> << [gravity |-> is_multiple_of(count, gt.gravity_ticks),
                         input   |-> is_multiple_of(count, gt.input_ticks)] >>]

\* GameTimer::time_until_next_tick at the instant now
time_until_next_tick(gt, now) ==
  IF gt.interval_timer.next_tick_at > now
  THEN gt.interval_timer.next_tick_at - now
  ELSE 0

TimerInit ==
  /\ \E tick_interval \in 1..MaxInterval,
        gravity_ticks \in (0..MaxPeriod) \cup {INITIAL_GRAVITY_TICKS},
        input_ticks \in (1..MaxPeriod) \cup {INPUT_TICKS} :
       timer = GameTimer_new(tick_interval, gravity_ticks, input_ticks, 0)
  /\ clock = 0
  /\ tick = << >>
  /\ produced = [ticks |-> 0, gravity |-> 0, input |-> 0]
  /\ board = Board_new
  /\ active_block = ActiveBlock_new("I")
  /\ event = <<"None">>
  /\ returned = << >>
  /\ NoGame
  /\ NoHost

\* delta units of time pass and GameTimer::update is called
TimerUpdate(delta) ==
  LET r == GameTimer_update(timer, clock + delta)
  IN /\ clock + delta <= MaxClock
     /\ clock' = clock + delta
     /\ timer' = r.timer
     /\ tick' = r.tick
     /\ produced' =
          IF r.tick = << >> THEN produced
          ELSE [ticks   |-> produced.ticks + 1,
                gravity |-> produced.gravity + (IF r.tick[1].gravity THEN 1 ELSE 0),
                input   |-> produced.input + (IF r.tick[1].input THEN 1 ELSE 0)]
     /\ UNCHANGED << gameVars, returned, hostVars, rotVars >>

TimerNext == \E delta \in 0..MaxDelta : TimerUpdate(delta)

TimerSpec == TimerInit /\ [][TimerNext]_vars

(***************************************************************************)
(* The host: the loop of main driving a GameState with a GameTimer built   *)
(* with INITIAL_GRAVITY_TICKS and INPUT_TICKS and a frame interval of      *)
(* MaxInterval clock units.  pc is the statement main executes next:       *)
(* "update" (timer.update(), the head of the loop), "gravity" (if          *)
(* tick.gravity), "input" (if tick.input && poll_input, with the draw      *)
(* that follows it), "sleep" (thread::sleep) and "returned".               *)
(*                                                                         *)
(* Instants are measured from the present: clock stays 0 and the timer's   *)
(* Instants move into the past as time passes.  tick_count is kept modulo  *)
(* gravity_ticks * input_ticks: GameTimer::update reads it through         *)
(* is_multiple_of of these two periods only.  The calls of update are not  *)
(* counted.  Both keep the host's state space finite, so that a loop that  *)
(* runs for ever is a cycle of it.                                         *)
(*                                                                         *)
(* The player presses, at the poll of a tick, the key their habit has for  *)
(* that tick, or q.  A key press is found after any part of the poll's     *)
(* duration, no key press after all of it; thread::sleep oversleeps by     *)
(* 0..MaxDelta units.                                                      *)
(***************************************************************************)
KeyCode == {"Left", "Right", "Down", "q", "z", "x", "other"}

\* the event poll_input returns for what the keyboard read: None << >>, Some(e) << e >>
poll_input(k) ==
  IF k = << >> THEN << >>
  ELSE CASE k[1] = "Left"  -> << <<"Move", "Left">> >>
         [] k[1] = "Right" -> << <<"Move", "Right">> >>
         [] k[1] = "Down"  -> << <<"Gravity">> >>
         [] k[1] = "q"     -> << <<"Quit">> >>
         [] k[1] = "z"     -> << <<"Rotate", "Left">> >>
         [] k[1] = "x"     -> << <<"Rotate", "Right">> >>
         [] OTHER          -> << >>

\* the habits of a player: the key pressed at the poll of tick k is entry
\* (k mod length) + 1, so that entry 1 is for the ticks that apply gravity.
\* The first rotates there and drops softly at ten of the eleven ticks
\* between; the second presses every key in turn.
Habits ==
  << << <<"z">> >> \o Rep(<<"Down">>, INITIAL_GRAVITY_TICKS - 2) \o << << >> >>,
     << <<"z">>, <<"Left">>, <<"Down">>, <<"x">>, <<"Right">>, <<"Down">>,
        <<"other">>, << >>, <<"Down">>, <<"Down">>, <<"Down">>, <<"Down">> >> >>

habit_key == Habits[opening][(timer.tick_count % Len(Habits[opening])) + 1]

\* d units of time pass
elapse(gt, d) ==
  [gt EXCEPT !.interval_timer.last_update = @ - d,
             !.interval_timer.next_tick_at = @ - d]

HostInit ==
  /\ \E tape \in Tapes :
       LET s == GameState_new([tape |-> tape, drawn |-> 0])
       IN /\ score = s.score
          /\ board = s.board
          /\ block_generator = s.block_generator
          /\ active_block = s.active_block
          /\ queue = s.queue
          /\ game_over = s.game_over
  /\ opening \in 1..Len(Habits)
  /\ event = <<"None">>
  /\ panicked = FALSE
  /\ landings = 0
  /\ delivered = 0
  /\ steers = 0
  /\ returned = << >>
  /\ timer = GameTimer_new(MaxInterval, INITIAL_GRAVITY_TICKS, INPUT_TICKS, 0)
  /\ clock = 0
  /\ tick = << >>
  /\ produced = [ticks |-> 0, gravity |-> 0, input |-> 0]
  /\ pc = "update"
  /\ key = << >>
  /\ ended_by = "none"
  /\ blk = << >> /\ index = 0 /\ build = "none"

\* state.update(ev) called by the statement at pc
HostCall(ev) ==
  LET r == update(GS, ev)
  IN /\ score' = r.state.score
     /\ board' = r.state.board
     /\ block_generator' = r.state.block_generator
     /\ active_block' = r.state.active_block
     /\ queue' = r.state.queue
     /\ game_over' = r.state.game_over
     /\ panicked' = r.panic
     /\ event' = ev
     /\ landings' = IF ev[1] = "Gravity" /\ WouldLand THEN landings + 1 ELSE landings
     /\ ended_by' = IF ~game_over /\ r.state.game_over THEN pc ELSE ended_by

\* no call of state.update
HostNoCall ==
  UNCHANGED << score, board, block_generator, active_block, queue, game_over,
               panicked, event, landings, ended_by >>

\* if let Some(tick) = timer.update()
HostTimerUpdate ==
  LET r == GameTimer_update(timer, clock)
  IN /\ pc = "update"
     /\ timer' = [r.timer EXCEPT
                    !.tick_count = @ % (timer.gravity_ticks * timer.input_ticks)]
     /\ tick' = r.tick
     /\ pc' = IF r.tick = << >> THEN "sleep" ELSE "gravity"
     /\ HostNoCall
     /\ UNCHANGED << opening, delivered, steers, returned, clock, produced, key, rotVars >>

\* the gravity statement left out
HostGravity_skipped ==
  /\ pc = "gravity"
  /\ HostNoCall
  /\ pc' = "input"
  /\ UNCHANGED << opening, delivered, steers, returned, timerVars, key, rotVars >>

\* if tick.gravity { state.update(Event::Gravity) }
HostGravity ==
  /\ pc = "gravity"
  /\ IF tick[1].gravity THEN HostCall(<<"Gravity">>) ELSE HostNoCall
  /\ pc' = "input"
  /\ UNCHANGED << opening, delivered, steers, returned, timerVars, key, rotVars >>

\* every polled event, Quit included, passed on to state.update
HostRead_forward_quit(k, waited) ==
  /\ key' = k
  /\ timer' = elapse(timer, waited)
  /\ IF poll_input(k) = << >>
     THEN HostNoCall /\ pc' = "sleep"
     ELSE HostCall(poll_input(k)[1]) /\ pc' = "sleep"

\* if tick.input && let Some(event) = poll_input(timer.time_until_next_tick())?
\* { if event == Event::Quit { return Ok(()) } else { state.update(event) } }
\* and terminal.draw, where the keyboard reads k after `waited` units
HostRead(k, waited) ==
  /\ key' = k
  /\ timer' = elapse(timer, waited)
  /\ IF poll_input(k) = << >>
     THEN HostNoCall /\ pc' = "sleep"
     ELSE IF poll_input(k)[1] = <<"Quit">>
          THEN HostNoCall /\ pc' = "returned"
          ELSE HostCall(poll_input(k)[1]) /\ pc' = "sleep"

HostInput ==
  /\ pc = "input"
  /\ IF tick[1].input
     THEN \E k \in {habit_key, <<"q">>} :
            \E waited \in 0..time_until_next_tick(timer, clock) :
              /\ k = << >> => waited = time_until_next_tick(timer, clock)
              /\ HostRead(k, waited)
     ELSE /\ HostNoCall
          /\ pc' = "sleep"
          /\ UNCHANGED << key, timer >>
  /\ UNCHANGED << opening, delivered, steers, returned, clock, tick, produced, rotVars >>

\* thread::sleep(timer.time_until_next_tick())
HostSleep ==
  /\ pc = "sleep"
  /\ \E over \in 0..MaxDelta :
       timer' = elapse(timer, time_until_next_tick(timer, clock) + over)
  /\ pc' = "update"
  /\ HostNoCall
  /\ UNCHANGED << opening, delivered, steers, returned, clock, tick, produced, key, rotVars >>

HostNext ==
  \/ HostTimerUpdate
  \/ HostGravity
  \/ HostInput
  \/ HostSleep

\* the statement at pc is executed: control moves on
HostStep ==
  /\ pc # "returned"
  /\ pc' \in {"update", "gravity", "input", "sleep", "returned"}

\* main is one thread and neither the poll nor the sleep lasts for ever: as
\* long as the loop has not returned, its next statement is executed
HostSpec == HostInit /\ [][HostNext]_vars /\ WF_pc(HostStep)

(***************************************************************************)
(* Rotation counters: a Block of block.rs, whose rotation_counter is a     *)
(* plain usize, and a RotationIndex of rotation.rs, rotated either way any *)
(* number of times.  usize subtraction below zero panics in a build with   *)
(* overflow checks ("debug") and wraps in one without ("release"); the     *)
(* build is either.                                                        *)
(***************************************************************************)
Build == {"debug", "release"}

\* Block::new
Block_new(block_type) == [block_type |-> block_type, rotation_counter |-> 0]

\* Block::rotate_clockwise: the block after the call
Block_rotate_clockwise(b) ==
  [b EXCEPT !.rotation_counter = (b.rotation_counter + 1) % 4]

\* Block::rotate_counter_clockwise: the block after the call and whether the
\* subtraction panicked
Block_rotate_counter_clockwise(b, profile) ==
  IF b.rotation_counter - 1 < 0 /\ profile = "debug"
  THEN [block |-> b, panic |-> TRUE]
  ELSE [block |-> [b EXCEPT !.rotation_counter =
                               ((b.rotation_counter - 1) % USIZE_WRAP) % 4],
        panic |-> FALSE]

RotInit ==
  /\ \E block_type \in BlockType : blk = Block_new(block_type)
  /\ index = 0
  /\ build \in Build
  /\ board = Board_new
  /\ active_block = ActiveBlock_new("I")
  /\ event = <<"None">>
  /\ returned = << >>
  /\ NoGame
  /\ NoTimer
  /\ pc = "none" /\ key = << >> /\ ended_by = "none"

\* block.rotate_clockwise()
CallBlockRotateClockwise ==
  /\ ~panicked
  /\ blk' = Block_rotate_clockwise(blk)
  /\ event' = <<"Block::rotate_clockwise">>
  /\ UNCHANGED << score, board, block_generator, active_block, queue, game_over,
                  panicked, landings, opening, delivered, steers, returned,
                  timerVars, hostVars, index, build >>

\* block.rotate_counter_clockwise()
CallBlockRotateCounterClockwise ==
  LET r == Block_rotate_counter_clockwise(blk, build)
  IN /\ ~panicked
     /\ blk' = r.block
     /\ panicked' = r.panic
     /\ event' = <<"Block::rotate_counter_clockwise">>
     /\ UNCHANGED << score, board, block_generator, active_block, queue, game_over,
                     landings, opening, delivered, steers, returned,
                     timerVars, hostVars, index, build >>

\* rotation_index.inc()
CallInc ==
  /\ ~panicked
  /\ index' = inc(index)
  /\ event' = <<"RotationIndex::inc">>
  /\ UNCHANGED << score, board, block_generator, active_block, queue, game_over,
                  panicked, landings, opening, delivered, steers, returned,
                  timerVars, hostVars, blk, build >>

\* rotation_index.dec()
CallDec ==
  /\ ~panicked
  /\ index' = dec(index)
  /\ event' = <<"RotationIndex::dec">>
  /\ UNCHANGED << score, board, block_generator, active_block, queue, game_over,
                  panicked, landings, opening, delivered, steers, returned,
                  timerVars, hostVars, blk, build >>

RotNext ==
  \/ CallBlockRotateClockwise
  \/ CallBlockRotateCounterClockwise
  \/ CallInc
  \/ CallDec

RotSpec == RotInit /\ [][RotNext]_vars

(***************************************************************************)
(* The claims.  A step of the state machine is one call update(event');    *)
(* the unprimed variables are the state before the call.                   *)
(***************************************************************************)
\* the four cells of a block as a set of <<row, col>>
cells(ab) == {board_positions(ab)[k] : k \in 1..4}

\* the rows of a board that are fully occupied
full_rows(b) == {r \in Rows : b[r] = AllCols}

\* this step is a call of update with the game on
GameOn(ev) == event' = ev /\ ~game_over /\ ~panicked

\* this step is a Gravity event that lands the block
Landing == GameOn(<<"Gravity">>) /\ collides(board, move_down(active_block))

\* C1: once game_over is true, update changes nothing for any event (score,
\* board, active block, queue, game_over), samples no block and does not
\* panic, so game_over stays true.
C1_GameOverFreezes ==
  [][game_over =>
       /\ game_over'
       /\ ~panicked'
       /\ score' = score
       /\ board' = board
       /\ active_block' = active_block
       /\ queue' = queue
       /\ block_generator' = block_generator]_vars

\* C1: every kind of event has been delivered to a game that was over
C1_Witness == game_over /\ ~panicked /\ event = <<"Quit">>

\* C2: a Gravity event with the game on moves the block one row down and
\* changes nothing else if the block one row down does not collide;
\* otherwise the state after it is that of the landing procedure run on the
\* block at its position before the event.
C2_GravityStep ==
  [][GameOn(<<"Gravity">>) =>
       IF ~collides(board, [active_block EXCEPT !.top_left[1] = @ + 1])
       THEN /\ active_block' = [active_block EXCEPT !.top_left[1] = @ + 1]
            /\ UNCHANGED << score, board, queue, game_over, block_generator >>
            /\ ~panicked'
       ELSE /\ [score |-> score', board |-> board',
                block_generator |-> block_generator',
                active_block |-> active_block', queue |-> queue',
                game_over |-> game_over'] = handle_landing(GS)
            /\ ~panicked']_vars

\* C2: a Gravity event has landed a block and the next block has spawned
C2_Witness ==
  /\ event = <<"Gravity">> /\ ~game_over /\ landings >= 1
  /\ active_block.top_left[1] = 0
  /\ \E r \in Rows : board[r] # {}

\* C3: a landing fixes the block, removes the complete rows, adds their
\* number to the score and only then tests the buffer zone: game_over
\* becomes true exactly when row 1 of the resulting board holds an occupied
\* cell; then the active block and the queue stay as they were, otherwise
\* the block at the head of the queue is loaded.
C3_LandingOrder ==
  [][Landing =>
       LET after == clear_lines(fix_active_block(board, active_block))
       IN /\ board' = after.board
          /\ score' = score + after.cleared
          /\ game_over' = (after.board[1] # {})
          /\ game_over' => active_block' = active_block /\ queue' = queue
          /\ ~game_over' =>
               /\ active_block'.block_type = contents(queue)[1]
               /\ active_block'.top_left[1] = 0]_vars

\* C3: a landing has ended the game
C3_Witness == game_over /\ event = <<"Gravity">> /\ board[1] # {} /\ landings >= 2

\* C4: while the game is on, the four cells of the active block are inside
\* the board and on empty cells.
C4_ActiveNeverCollides ==
  (~game_over) =>
    \A pos \in cells(active_block) :
      /\ pos[1] \in Rows
      /\ pos[2] \in Cols
      /\ pos[2] \notin board[pos[1]]

\* C4: a block has spawned above a stack that reaches the row below the
\* buffer zone
C4_Witness ==
  /\ ~game_over /\ landings >= 1 /\ active_block.top_left[1] = 0
  /\ board[BUFFER_ZONE_ROWS] # {}

\* C5: the score starts at 0 and never decreases; a landing adds exactly the
\* number of rows that were complete once the block was fixed, and no other
\* event changes the score.
C5_Score ==
  /\ score = 0
  /\ [][/\ score' >= score
        /\ Landing =>
             score' = score +
               Cardinality(full_rows(fix_active_block(board, active_block)))
        /\ ~Landing => score' = score]_vars

\* C5: one landing has cleared two rows
C5_Witness == score = 2 /\ landings = 5

\* C6: the queue always holds QUEUE_LEN blocks in one contiguous slice: the
\* back slice of as_slices is empty and pop_front never returns None.
C6_QueueFullContiguous ==
  /\ queue.len = QUEUE_LEN
  /\ Len(as_slices(queue)[1]) = QUEUE_LEN
  /\ as_slices(queue)[2] = << >>
  /\ pop_front(queue).value # << >>

\* C6: the queue has been refilled twice
C6_Witness == landings >= 2 /\ ~game_over /\ block_generator.drawn = QUEUE_LEN + 3

\* C7: after a landing that does not end the game the active block is a new
\* block of the type that was at the head of the queue, and the queue is
\* the old queue without its head followed by the block the generator
\* produced.
C7_QueueFifo ==
  [][(Landing /\ ~game_over') =>
       /\ active_block' = ActiveBlock_new(contents(queue)[1])
       /\ active_block'.rotation_index = 0
       /\ contents(queue') =
            Tail(contents(queue)) \o << block(block_generator).value >>
       /\ block_generator'.drawn = block_generator.drawn + 1]_vars

\* C7: a block has been loaded from a queue whose head differed from the
\* block behind it
C7_Witness ==
  /\ landings >= 1 /\ ~game_over /\ event = <<"Gravity">>
  /\ active_block.top_left[1] = 0
  /\ active_block.block_type # contents(queue)[1]

\* C8: a Move event with the game on shifts the anchor column by one in the
\* direction of the move if the shifted block does not collide and leaves
\* it as it was otherwise; nothing else changes.
C8_MoveStep ==
  [][\A d \in Direction :
       GameOn(<<"Move", d>>) =>
         LET delta   == IF d = "Left" THEN -1 ELSE 1
             shifted == [active_block EXCEPT !.top_left[2] = @ + delta]
         IN /\ active_block' = IF collides(board, shifted) THEN active_block
                                                           ELSE shifted
            /\ UNCHANGED << score, board, queue, game_over, block_generator >>
            /\ ~panicked']_vars

\* C8: a Move(Left) at the left wall has been undone
C8_Witness ==
  /\ event = <<"Move", "Left">> /\ opening = 5 /\ delivered = 7
  /\ active_block.block_type = "I" /\ active_block.top_left[2] = -2

\* C9: a Rotate event with the game on steps the rotation index by one in
\* the direction of the rotation (modulo 4) if the turned block does not
\* collide and leaves it as it was otherwise; the anchor and everything
\* else stay as they were.
C9_RotateStep ==
  [][\A d \in Direction :
       GameOn(<<"Rotate", d>>) =>
         LET delta  == IF d = "Left" THEN 3 ELSE 1
             turned == [active_block EXCEPT
                          !.rotation_index = (@ + delta) % 4]
         IN /\ active_block' = IF collides(board, turned) THEN active_block
                                                          ELSE turned
            /\ UNCHANGED << score, board, queue, game_over, block_generator >>
            /\ ~panicked']_vars

\* C9: a Rotate(Right) of a block lying on the floor has been undone
C9_Witness ==
  /\ event = <<"Rotate", "Right">> /\ opening = 2 /\ delivered = 21
  /\ active_block.block_type = "I" /\ active_block.rotation_index = 0

\* C10: update(Quit) with the game on returns normally and leaves the state
\* as it was.
C10_QuitReturns ==
  [][GameOn(<<"Quit">>) =>
       /\ ~panicked'
       /\ UNCHANGED << score, board, active_block, queue, game_over,
                       block_generator >>]_vars

(***************************************************************************)
(* Claims about Board::clear_lines, under ClearSpec: a step is one call    *)
(* board.clear_lines(), board is the board before it and board' after it.  *)
(***************************************************************************)
\* the value the last call returned
ret == returned[Len(returned)]

\* the number of complete rows of b below row r
full_below(b, r) == Cardinality({q \in full_rows(b) : q > r})

\* the topmost row of b holding an occupied cell, BOARD_ROWS on an empty board
top_row(b) ==
  IF \A r \in Rows : b[r] = {} THEN BOARD_ROWS
  ELSE CHOOSE r \in Rows : b[r] # {} /\ \A q \in 0..(r - 1) : b[q] = {}

\* no empty row of b lies below a row holding an occupied cell
Compact(b) == \A r, q \in Rows : (r < q /\ b[r] # {}) => b[q] # {}

\* C11: clear_lines returns the number of complete rows of the board it is
\* given and leaves no complete row; on the board of 22 complete rows it
\* returns 22 and leaves the empty board.
C11_ClearCount ==
  [][event' = <<"clear_lines">> =>
       /\ ret' = Cardinality(full_rows(board))
       /\ full_rows(board') = {}
       /\ full_rows(board) = Rows =>
            ret' = BOARD_ROWS /\ board' = Board_new]_vars

\* C11: clear_lines has emptied the board of 22 complete rows
C11_Witness ==
  event = <<"clear_lines">> /\ ret = BOARD_ROWS /\ board = Board_new

\* C12: clear_lines keeps the cells of every incomplete row and the order of
\* the incomplete rows: each ends up lower by the number of complete rows
\* that were below it, and the rows vacated at the top of the occupied
\* region are empty.
C12_SurvivorsKept ==
  [][event' = <<"clear_lines">> =>
       /\ \A r \in Rows \ full_rows(board) :
            board'[r + full_below(board, r)] = board[r]
       /\ \A r \in Rows :
            (r >= top_row(board)
               /\ r < top_row(board) + Cardinality(full_rows(board)))
              => board'[r] = {}]_vars

\* C12: two complete rows around an incomplete row have been cleared: the
\* two different incomplete rows are the bottom two rows, in their order
C12_Witness ==
  /\ event = <<"clear_lines">> /\ ret = 2
  /\ board[BOARD_ROWS - 1] = RowKinds[3]
  /\ board[BOARD_ROWS - 2] = RowKinds[4]
  /\ top_row(board) = BOARD_ROWS - 2

\* C13: clear_lines is idempotent: on a board without a complete row it
\* returns 0 and leaves the board as it was, so a call right after a call
\* returns 0 and changes nothing.
C13_ClearIdempotent ==
  [][event' = <<"clear_lines">> =>
       /\ full_rows(board) = {} => (ret' = 0 /\ board' = board)
       /\ event = <<"clear_lines">> => (ret' = 0 /\ board' = board)]_vars

\* C13: a second call has returned 0 on a board from which the first call
\* had cleared three rows
C13_Witness ==
  /\ event = <<"clear_lines">> /\ returned = << 3, 0 >>
  /\ board # Board_new

\* C14 as claimed: after clear_lines every empty row is above every row that
\* holds an occupied cell, whatever the board was.
C14_AlwaysCompact ==
  [][event' = <<"clear_lines">> => Compact(board')]_vars

\* C14: after clear_lines every empty row is above every row that holds an
\* occupied cell, except the rows that were empty and below an occupied row
\* before the call, which are kept (moved down with the rows around them);
\* so if no empty row lay below an occupied row before the call, none does
\* after it.
C14_CompactKept ==
  [][event' = <<"clear_lines">> =>
       /\ \A r \in Rows :
            (board'[r] = {} /\ r > top_row(board')) =>
              \E r0 \in Rows : /\ board[r0] = {}
                               /\ r0 > top_row(board)
                               /\ r0 + full_below(board, r0) = r
       /\ Compact(board) => Compact(board')]_vars

\* C14: complete rows between incomplete rows of a stack without an empty
\* row have been cleared
C14_Witness ==
  /\ event = <<"clear_lines">> /\ ret = 2
  /\ Compact(board)
  /\ top_row(board) = BOARD_ROWS - 3

(***************************************************************************)
(* Claims about Board::collides and Board::fix_active_block, under         *)
(* PieceSpec: a step is one call with the block active_block.              *)
(***************************************************************************)
\* the four cells of a block as <<row, col>> with the column signed
signed_cells(ab) ==
  {<< ab.top_left[1] + rotation(ab).positions[k][1],
      ab.top_left[2] + rotation(ab).positions[k][2] >> : k \in 1..4}

\* the number of occupied cells of b
occupied(b) == Cardinality({<<r, c>> \in Rows \X Cols : c \in b[r]})

\* C15: collides returns true exactly if one of the four cells of the block
\* has a row >= BOARD_ROWS or a column left or right of the board or is on
\* an occupied cell; it leaves the board as it was and fails on no index.
C15_CollidesExact ==
  [][event' = <<"collides">> =>
       /\ ret' = (\E pos \in signed_cells(active_block) :
                    \/ pos[1] >= BOARD_ROWS
                    \/ pos[2] < 0
                    \/ pos[2] >= BOARD_COLS
                    \/ pos[2] \in board[pos[1]])
       /\ board' = board
       /\ ~panicked']_vars

\* C15: collides has returned true for a block that is above the floor, on
\* no occupied cell and right of no column, with a cell left of column 0
C15_Witness ==
  /\ event = <<"collides">> /\ returned = << TRUE >>
  /\ \A pos \in signed_cells(active_block) :
       pos[1] < BOARD_ROWS /\ pos[2] < BOARD_COLS
         /\ (pos[2] >= 0 => pos[2] \notin board[pos[1]])
  /\ \E pos \in signed_cells(active_block) : pos[2] < 0

\* C16: fix_active_block with a block that does not collide makes the four
\* cells of the block occupied and leaves every other cell as it was.
C16_FixExact ==
  [][(event' = <<"fix_active_block">> /\ ~collides(board, active_block)) =>
       /\ \A r \in Rows : board'[r] \subseteq Cols
       /\ \A r \in Rows, c \in Cols :
            c \in board'[r] <=>
              (c \in board[r] \/ <<r, c>> \in signed_cells(active_block))
       /\ occupied(board') = occupied(board) + 4
       /\ ~panicked']_vars

\* C16: a block that did not collide has been fixed on a board that held
\* occupied cells
C16_Witness ==
  /\ event = <<"fix_active_block">> /\ returned = << FALSE >> /\ ~panicked
  /\ \A pos \in signed_cells(active_block) : pos[2] \in board[pos[1]]
  /\ occupied(board) > 4

(***************************************************************************)
(* Further claims about the game core, under Spec.                         *)
(***************************************************************************)
\* the board a landing hands to buffer_zone_occupied
landed == clear_lines(fix_active_block(board, active_block)).board

\* C17: buffer_zone_occupied returns true exactly if row 1 holds an occupied
\* cell, and on every board the game hands to it (the board of a landing,
\* the block fixed and the complete rows cleared) an empty row 1 comes with
\* an empty row 0, so its debug assertion holds.
C17_BufferZoneTest ==
  [][Landing =>
       /\ buffer_zone_occupied(landed) = (\E c \in Cols : c \in landed[1])
       /\ game_over' = (\E c \in Cols : c \in landed[1])
       /\ (\A c \in Cols : c \notin landed[1])
            => (\A c \in Cols : c \notin landed[0])
       /\ buffer_zone_assertion(landed)]_vars

\* C17: a landing has left a stack that reaches the row below the buffer
\* zone, buffer_zone_occupied has returned false and the next block is out
C17_Witness ==
  /\ event = <<"Gravity">> /\ ~game_over /\ landings >= 10
  /\ board[0] = {} /\ board[1] = {} /\ board[2] # {}
  /\ active_block.top_left[1] = 0

\* ab is a block as a new block of its type has to be
AtSpawn(ab) ==
  LET cs == cells(ab)
  IN /\ ab.rotation_index = 0
     /\ \E pos \in cs : pos[1] = 1
     /\ \A pos \in cs : pos[1] <= 1
     /\ \E pos \in cs : pos[2] = (BOARD_COLS \div 2) - (rotation(ab).width \div 2)
     /\ \A pos \in cs : pos[2] >= (BOARD_COLS \div 2) - (rotation(ab).width \div 2)
     /\ ab.block_type = "I" => cs = {<<1, 3>>, <<1, 4>>, <<1, 5>>, <<1, 6>>}
     /\ ab.block_type = "O" => cs = {<<0, 4>>, <<0, 5>>, <<1, 4>>, <<1, 5>>}
     /\ ab.block_type = "J" => cs \subseteq ((0..1) \X (4..6))

\* C18: every new active block, the one of GameState::new and the one loaded
\* by a landing, has rotation index 0, its lowest cells in row 1 and its
\* leftmost cell in column BOARD_COLS/2 - width/2: I in row 1, columns
\* 3..6, O in rows 0..1, columns 4..5, J in rows 0..1 within columns 4..6.
C18_SpawnGeometry ==
  [][/\ delivered = 0 => AtSpawn(active_block)
     /\ (Landing /\ ~game_over') => AtSpawn(active_block')]_vars

\* C18: a landing has loaded an I block, which is in row 1, columns 3..6
C18_Witness ==
  /\ event = <<"Gravity">> /\ landings >= 1 /\ ~game_over
  /\ active_block.block_type = "I"
  /\ cells(active_block) = {<<1, 3>>, <<1, 4>>, <<1, 5>>, <<1, 6>>}

\* the events delivered so far are those of the opening and all are Gravity
OnlyGravity ==
  /\ delivered <= Len(script)
  /\ \A k \in 1..delivered : script[k] = <<"Gravity">>

\* C19: from a new game, with Gravity events only and whatever the first
\* block is, each of the first 20 events moves the block one row down
\* without a landing, the 20th bringing its lowest cells to row 21; the 21st
\* event lands it: the board holds exactly its four cells, the score is 0,
\* the game is on, the block that headed the queue is the active block, at
\* spawn, and the queue holds QUEUE_LEN blocks.
C19_FirstDrop ==
  [][(OnlyGravity /\ event' = <<"Gravity">> /\ delivered <= 20) =>
       IF delivered < 20
       THEN /\ active_block' = [active_block EXCEPT !.top_left[1] = @ + 1]
            /\ board' = Board_new
            /\ UNCHANGED << score, queue, game_over, block_generator >>
            /\ delivered = 19 =>
                 /\ \E pos \in cells(active_block') : pos[1] = BOARD_ROWS - 1
                 /\ \A pos \in cells(active_block') : pos[1] <= BOARD_ROWS - 1
       ELSE /\ {<<r, c>> \in Rows \X Cols : c \in board'[r]} = cells(active_block)
            /\ score' = 0
            /\ ~game_over'
            /\ active_block' = ActiveBlock_new(contents(queue)[1])
            /\ AtSpawn(active_block')
            /\ Len(contents(queue')) = QUEUE_LEN]_vars

\* C19: the 21st Gravity event of a new game has landed the first block
C19_Witness ==
  /\ opening = 2 /\ delivered = 21 /\ event = <<"Gravity">>
  /\ landings = 1 /\ occupied(board) = 4 /\ score = 0 /\ ~game_over
  /\ active_block.top_left[1] = 0

(***************************************************************************)
(* Claims about steering, under SteerSpec: a step is one call              *)
(* update(event').                                                         *)
(***************************************************************************)
\* C27: for every piece type and rotation Move(Left) is accepted exactly
\* while every cell of the piece would stay at a column >= 0 on an empty
\* cell, also where that needs a negative anchor column: the vertical I
\* piece (rotation index 1) reaches anchor column -2 with its cells in
\* column 0, and the next Move(Left) is rejected.  No reachable state has a
\* cell of the active piece at a negative column.
C27_LeftWall ==
  [][/\ GameOn(<<"Move", "Left">>) =>
          LET moved == [active_block EXCEPT !.top_left[2] = @ - 1]
              fits  == \A pos \in signed_cells(moved) :
                         pos[2] >= 0 /\ pos[2] \notin board[pos[1]]
          IN /\ fits => active_block' = moved
             /\ ~fits => active_block' = active_block
     /\ \A pos \in signed_cells(active_block') : pos[2] >= 0
     /\ delivered = 0 => \A pos \in signed_cells(active_block) : pos[2] >= 0]_vars

\* C27: the vertical I piece stands at anchor column -2 with its cells in
\* column 0 and a Move(Left) has just been rejected
C27_Witness ==
  /\ active_block.block_type = "I" /\ active_block.rotation_index = 1
  /\ active_block.top_left[2] = 0 - 2
  /\ \A pos \in signed_cells(active_block) : pos[2] = 0
  /\ event = <<"Move", "Left">> /\ returned = << TRUE >>
  /\ ~game_over

(***************************************************************************)
(* Claims about the stack and the generator, under Spec.                   *)
(***************************************************************************)
\* C28: in every reachable state of the game the rows holding an occupied
\* cell form one block that ends at row 21: no empty row lies below an
\* occupied row.
C28_NoGapRows ==
  \A r \in Rows : board[r] # {} => \A q \in (r + 1)..(BOARD_ROWS - 1) : board[q] # {}

\* C28: a landing has cleared a complete row from under a row that stays,
\* and what stays stands on the floor
C28_Witness ==
  /\ event = <<"Gravity">> /\ score = 1 /\ ~game_over
  /\ landings = 3 /\ occupied(board) = 2
  /\ board[BOARD_ROWS - 1] # {} /\ board[BOARD_ROWS - 2] = {}

\* C29: the number of occupied cells of the board is 4 * landings -
\* BOARD_COLS * score: every landing adds the four cells of the block, every
\* cleared line removes its BOARD_COLS cells, and nothing else changes the
\* number.
C29_CellCount ==
  [][/\ delivered = 0 => occupied(board) = 0
     /\ occupied(board') = (4 * landings') - (BOARD_COLS * score')
     /\ Landing => landings' = landings + 1
     /\ ~Landing => board' = board /\ score' = score /\ landings' = landings]_vars

\* C29: eleven blocks have landed, the last one ending the game, and no line
\* was cleared: 44 cells
C29_Witness ==
  /\ game_over /\ landings = 11 /\ score = 0 /\ occupied(board) = 44
  /\ event = <<"Gravity">>

\* C30: the generator is sampled QUEUE_LEN + 1 = 4 times when the game is
\* constructed and once at every landing that does not end the game; a
\* Move, a Rotate, a Gravity that does not land, the landing that ends the
\* game and every update after game over sample nothing.
C30_Samples ==
  [][/\ delivered = 0 => block_generator.drawn = QUEUE_LEN + 1
     /\ (Landing /\ ~game_over') => block_generator'.drawn = block_generator.drawn + 1
     /\ ~(Landing /\ ~game_over') => block_generator' = block_generator
     /\ block_generator'.drawn = (QUEUE_LEN + 1) + (landings' - (IF game_over' THEN 1 ELSE 0))
     /\ block_generator'.tape = block_generator.tape]_vars

\* C30: the eleventh landing has ended the game and events were delivered
\* after it: four samples at construction and ten for the landings before
C30_Witness ==
  /\ game_over /\ landings = 11 /\ delivered >= 123
  /\ block_generator.drawn = QUEUE_LEN + 11
  /\ event[1] \in {"Move", "Rotate"}

\* C31: the active piece never moves upward as seen by a caller: across
\* every update that does not spawn a new piece the anchor row after the
\* event is greater than or equal to the anchor row before it; move_up only
\* undoes the move_down of the same event.
C31_NeverUpward ==
  [][/\ ~(Landing /\ ~game_over') =>
          active_block'.top_left[1] >= active_block.top_left[1]
     /\ (Landing /\ game_over') => active_block' = active_block
     /\ (GameOn(<<"Gravity">>) /\ ~Landing) =>
          active_block'.top_left[1] = active_block.top_left[1] + 1
     /\ event'[1] \in {"Move", "Rotate"} =>
          active_block'.top_left[1] = active_block.top_left[1]]_vars

\* C31: the landing that ends the game has moved the block down and back up:
\* it is fixed where it stood, at its spawn row
C31_Witness ==
  /\ game_over /\ event = <<"Gravity">> /\ opening = 4 /\ delivered = 121
  /\ active_block.top_left[1] = 0
  /\ \A pos \in cells(active_block) : pos[2] \in board[pos[1]]

(***************************************************************************)
(* A claim about dropping, under DropSpec.                                 *)
(***************************************************************************)
\* C32: if from some reachable state onward only Gravity events are
\* delivered, no Move and no Rotate, and they keep being delivered, then
\* game_over eventually becomes true, whatever sequence of piece types the
\* generator produces.
C32_GravityEndsGame == <>game_over

\* C32: Gravity events alone have ended a game in which the player had
\* steered and a line had been cleared
C32_Witness ==
  /\ game_over /\ event = <<"Gravity">> /\ score >= 1
  /\ delivered > Len(script) /\ steers = MaxSteer

C21_TicksMatchElapsed ==
  LET T == timer.interval_timer.tick_interval
      N == clock \div T
  IN (timer.constructed /\ clock % T = 0) =>
       produced.ticks \in (N - 1)..(N + 1)

\* C26: IntervalTimer::update called delta after the previous call returns
\* true iff accumulator + delta >= tick_interval; afterwards the accumulator
\* is (accumulator + delta) mod tick_interval, so it is below tick_interval,
\* and next_tick_at - now = tick_interval - accumulator lies in
\* (0, tick_interval].
C26_AccumulateAndDrain ==
  [][LET it    == timer.interval_timer
         after == timer'.interval_timer
         T     == it.tick_interval
         acc   == it.time_since_last_tick + (clock' - clock)
     IN /\ (tick' # << >>) <=> (acc >= T)
        /\ IntervalTimer_update(it, clock').ticked <=> (acc >= T)
        /\ after.time_since_last_tick = acc % T
        /\ after.time_since_last_tick < T
        /\ after.last_update = clock'
        /\ after.next_tick_at - clock' = T - after.time_since_last_tick
        /\ after.next_tick_at - clock' \in 1..T
        /\ time_until_next_tick(timer', clock') = after.next_tick_at - clock']_vars

\* C26: the first tick comes from a call that arrives two and a half
\* intervals after an idle call: two intervals are drained and half of one is left
C26_Witness ==
  /\ timer.constructed /\ timer.interval_timer.tick_interval = 2
  /\ clock = 5 /\ produced.ticks = 1 /\ tick # << >>
  /\ timer.interval_timer.time_since_last_tick = 1
  /\ timer.interval_timer.next_tick_at = 6

(***************************************************************************)
(* Claims about the host loop, under HostSpec: a step is one statement of  *)
(* the loop of main.                                                       *)
(***************************************************************************)
\* the fields of the GameState
state == << score, board, block_generator, active_block, queue, game_over >>

\* the GameState after update(ev) as a tuple of its fields
state_after(ev) ==
  LET s == update(GS, ev).state
  IN << s.score, s.board, s.block_generator, s.active_block, s.queue, s.game_over >>

\* C22: within one tick of the host loop the gravity statement comes first
\* and the poll second; Gravity with the landing, line clearance and game
\* over it triggers is applied in full before the event polled for the same
\* tick is passed to update; and a polled Move, Rotate or Gravity event has no
\* effect if the game is over, in particular if that gravity step ended it.
C22_GravityBeforeInput ==
  [][/\ (pc = "update" /\ tick' # << >>) => pc' = "gravity"
     /\ pc' = "input" => pc = "gravity"
     /\ (pc = "gravity" /\ tick[1].gravity) =>
          /\ state' = state_after(<<"Gravity">>)
          /\ event' = <<"Gravity">>
          /\ (~game_over /\ collides(board, move_down(active_block))) =>
               /\ landings' = landings + 1
               /\ full_rows(board') = {}
               /\ game_over' = buffer_zone_occupied(board')
     /\ (pc = "gravity" /\ ~tick[1].gravity) => state' = state
     /\ (pc = "input" /\ pc' = "sleep" /\ poll_input(key') # << >>) =>
          /\ event' = poll_input(key')[1]
          /\ state' = state_after(poll_input(key')[1])
          /\ game_over => state' = state]_vars

\* C22: the gravity statement of a tick has ended the game and the z key
\* polled in a tick with the gravity flag was passed to update without effect
C22_Witness ==
  /\ pc = "sleep" /\ game_over /\ ended_by = "gravity"
  /\ tick = << [gravity |-> TRUE, input |-> TRUE] >>
  /\ key = <<"z">> /\ event = <<"Rotate", "Left">>

\* C23: whenever the poll of the host loop yields Quit the loop returns at
\* once, game over or not, and Quit is never passed to GameState::update,
\* whose arm for it is unimplemented.
C23_QuitReturns ==
  [][/\ (pc = "input" /\ key' = <<"q">> /\ tick[1].input) =>
          /\ pc' = "returned"
          /\ state' = state
          /\ event' = event
     /\ event' # <<"Quit">>
     /\ ~panicked']_vars

\* C23: the loop has returned on q after the game was over
C23_Witness ==
  pc = "returned" /\ key = <<"q">> /\ game_over /\ ~panicked /\ event # <<"Quit">>

\* C24: the host loop terminates on game over: once game_over is true the
\* loop eventually returns, without needing the q key.
C24_ReturnsOnGameOver == game_over ~> (pc = "returned")

(***************************************************************************)
(* Claims about the rotation counters, under RotSpec: a step is one call   *)
(* of a rotate method.                                                     *)
(***************************************************************************)
\* C25: the rotation index stays in 0..3; rotate_clockwise maps index i to
\* (i + 1) mod 4 and rotate_counter_clockwise maps i to (i + 3) mod 4 for
\* every i in 0..3, i = 0 included, which yields 3 without an arithmetic
\* failure; so each rotation undoes the other.
C25_RotationIndex ==
  [][/\ ~panicked'
     /\ blk'.rotation_counter \in 0..3
     /\ index' \in 0..3
     /\ event' = <<"Block::rotate_clockwise">> =>
          /\ blk'.rotation_counter = (blk.rotation_counter + 1) % 4
          /\ Block_rotate_counter_clockwise(blk', build).block = blk
     /\ event' = <<"Block::rotate_counter_clockwise">> =>
          /\ blk'.rotation_counter = (blk.rotation_counter + 3) % 4
          /\ Block_rotate_clockwise(blk') = blk
     /\ event' = <<"RotationIndex::inc">> =>
          /\ index' = (index + 1) % 4
          /\ dec(index') = index
     /\ event' = <<"RotationIndex::dec">> =>
          /\ index' = (index + 3) % 4
          /\ inc(index') = index]_vars
====
